---- MODULE Spec2Model ----
(***************************************************************************)
(* MPMCQueue<T, Capacity> (include/mpmc_queue.hpp): a bounded ring buffer  *)
(* with one sequence counter per cell and two cursors, head_ and tail_.    *)
(* Every atomic access of enqueue_impl and try_dequeue is one step of the  *)
(* calling thread; threads interleave at that granularity.  The payload    *)
(* accesses (cell->data) are steps of their own, as they are plain,        *)
(* non-atomic accesses between the cursor CAS and the sequence store.      *)
(* size_approx() is two relaxed loads, each a step; a relaxed load made    *)
(* outside a retry loop may return a value older than the newest one.      *)
(***************************************************************************)
EXTENDS Integers, Sequences, FiniteSets, Bags, TLC

\* ---------------------------------------------------------------- bounds
NumThreads == 2
MaxEnqueues == 3
MaxDequeues == 2
MaxSeqCalls == 6
MaxLogCapacity == 1
MaxVal == 2
RetryBound == 1
MaxObserves == 2
MaxBits == 3
MaxWrapCalls == 20

Threads == 1..NumThreads
Values == 1..MaxVal

\* Capacities accepted by the two static_asserts, up to the bound.
CapacityOk(c) == c > 0 /\ \E k \in 0..MaxLogCapacity : c = 2^k
Capacities == {c \in 1..(2^MaxLogCapacity) : CapacityOk(c)}

\* Content of a location that holds no value of the caller's: an output
\* variable never assigned, a payload never written.
NoVal == 0
\* A T object after static_cast<T&&> has taken its value.
Moved == -1

Scenarios == {"seq", "spsc", "mpmc"}

\* The pair of queues before it is set up.
NoWrap == [bits |-> 0, n |-> 0]

\* No enqueue-then-dequeue pair is being followed.
NoTrip == [by |-> 0, phase |-> 0, x |-> NoVal]

VARIABLES
    Capacity,   \* template parameter of this instance
    scenario,   \* which driver uses the queue
    head, tail, \* head_, tail_
    buffer,     \* buffer_: index -> [sequence, data]
    pc,         \* per thread: where it stands in its call
    op,         \* per thread: "enq" / "deq" / "none", the current or last call
    pos,        \* per thread: local pos
    item,       \* per thread: the caller's object bound to the parameter item
    byMove,     \* per thread: the call is try_enqueue(T&&)
    ret,        \* per thread: result of the last call that returned
    size,       \* per thread: result of its last size_approx()
    known,      \* per thread: <<head_, tail_>> values it has certainly observed
    solo,       \* 0, or the only thread the scheduler lets run
    nEnq, nDeq, \* try_enqueue / try_dequeue calls begun so far
    enqLog,     \* values whose payload write was done by an enqueue, in order
    deqLog,     \* values returned by try_dequeue calls that returned true
    hist,       \* sequential driver: <<op, result>> of each returned call
    startPub,   \* per dequeue call: newest position published when it began
    sawFull,    \* per enqueue call: the queue held Capacity values at some instant
    touched,    \* per call: a step of it changed head, tail, a cell or item
    rounds,     \* per call: times other threads' progress sent it back to the top of its loop
    nObs,       \* size_approx / empty_approx calls begun so far
    nEnqOk,     \* try_enqueue calls that have returned true
    quiet,      \* per thread, its last size_approx call: up to date at its start, no call overlapped it
    noEnq,      \* per thread, its last size_approx call: no try_enqueue overlapped it
    trip,       \* the enqueue-then-dequeue pair in progress on an empty, idle queue
    claimed,    \* claimed[p + 1]: the value given to the enqueue that claimed position p
    ref,        \* sequential driver: a bounded FIFO list put through the same calls
    wrap        \* a queue with counters of wrap.bits bits and one with unbounded
                \* counters, put through the same non-overlapping calls

prog == <<Capacity, scenario, head, tail, buffer, pc, op, pos, item, byMove, ret, size, known, solo>>
ghost == <<nEnq, nDeq, enqLog, deqLog, hist, startPub, sawFull, touched, rounds,
          nObs, nEnqOk, quiet, noEnq, trip, claimed, ref>>
vars == <<prog, ghost, wrap>>

\* ------------------------------------------------------------- helpers
\* pos & (Capacity - 1), Capacity a power of two
Index(p) == p % Capacity

\* static_cast<intptr_t>(a) - static_cast<intptr_t>(b)
SignedDiff(a, b) == a - b

\* Constructor: cursors at 0, cell i's sequence is i.
QueueInit ==
    /\ head = 0
    /\ tail = 0
    /\ buffer = [i \in 0..(Capacity - 1) |-> [sequence |-> i, data |-> NoVal]]

ThreadsInit ==
    /\ Capacity \in Capacities
    /\ scenario \in Scenarios
    /\ QueueInit
    /\ pc = [t \in Threads |-> "idle"]
    /\ op = [t \in Threads |-> "none"]
    /\ pos = [t \in Threads |-> 0]
    /\ item = [t \in Threads |-> NoVal]
    /\ byMove = [t \in Threads |-> FALSE]
    /\ ret = [t \in Threads |-> FALSE]
    /\ size = [t \in Threads |-> 0]
    /\ known = [t \in Threads |-> <<0, 0>>]
    /\ solo = 0
    /\ nEnq = 0
    /\ nDeq = 0
    /\ enqLog = <<>>
    /\ deqLog = <<>>
    /\ hist = <<>>
    /\ startPub = [t \in Threads |-> -1]
    /\ sawFull = [t \in Threads |-> FALSE]
    /\ touched = [t \in Threads |-> FALSE]
    /\ rounds = [t \in Threads |-> 0]
    /\ nObs = 0
    /\ nEnqOk = 0
    /\ quiet = [t \in Threads |-> FALSE]
    /\ noEnq = [t \in Threads |-> FALSE]
    /\ trip = NoTrip
    /\ claimed = <<>>
    /\ ref = [list |-> <<>>, ret |-> FALSE, out |-> NoVal]

\* The queue is used with counters wide enough never to wrap.
Init ==
    /\ ThreadsInit
    /\ wrap = NoWrap

\* Which threads the drivers let produce and consume.
MayEnqueue(t) ==
    \/ scenario = "mpmc"
    \/ scenario \in {"seq", "spsc"} /\ t = 1
MayDequeue(t) ==
    \/ scenario = "mpmc"
    \/ scenario = "seq" /\ t = 1
    \/ scenario = "spsc" /\ t = 2

\* The drivers make finitely many calls.
\* A consumer's loop spends its turns on try_dequeue and empty_approx alike.
EnqBudget == IF scenario = "seq" THEN nEnq + nDeq + nObs < MaxSeqCalls ELSE nEnq < MaxEnqueues
DeqBudget == IF scenario = "seq" THEN nEnq + nDeq + nObs < MaxSeqCalls
             ELSE nDeq + nObs < MaxDequeues
ObsBudget == DeqBudget /\ nObs < MaxObserves
Scheduled(t) == solo \in {0, t}

\* A step of try_enqueue / try_dequeue: its loads sit in a loop that re-reads
\* until the CAS agrees, so the step is taken to see the newest cursors, and it
\* leaves the result of the thread's last size_approx() alone.
Access(t) ==
    /\ known' = [known EXCEPT ![t] = <<head', tail'>>]
    /\ size' = size

\* ------------------------------------------------- what the checks observe
\* These record the history of a run; no step of the queue reads them.
Begins(t) == pc[t] = "idle" /\ pc'[t] # "idle"
Returns(t) == pc[t] # "idle" /\ pc'[t] = "idle"
Busy(t) == pc[t] # "idle"

\* Thread t is inside try_enqueue or try_dequeue.
InTry(t) == pc[t] \notin {"idle", "s_tail"}

\* No call of any kind is in progress and every position claimed by an
\* enqueue has been claimed by a dequeue.
EmptyAndIdle == (\A u \in Threads : pc[u] = "idle") /\ head = tail

\* Position q was claimed by an enqueue that has returned true.
Published(q) ==
    /\ q < head
    /\ ~ \E u \in Threads : pc[u] \in {"e_data", "e_pub"} /\ pos[u] = q

\* Newest position whose enqueue has returned and that no dequeue has claimed.
NewestUnclaimed ==
    LET S == {q \in tail..(head - 1) : Published(q)}
    IN  IF S = {} THEN -1 ELSE CHOOSE q \in S : \A r \in S : r <= q

\* Values claimed by enqueues and not yet handed out by a dequeue that returned.
Held == head - Len(deqLog)

\* The cursor thread t is working on.
Cursor(t) == IF op[t] = "enq" THEN head ELSE tail

\* Thread t goes back to the top of its retry loop, and the cursor is no longer
\* where t last read it (a weak CAS failing on an unchanged cursor is not counted).
SentBack(t) ==
    /\ pc[t] \in {"e_cas", "e_head", "d_cas", "d_tail"}
    /\ pc'[t] \in {"e_seq", "d_seq"}
    /\ Cursor(t) # pos[t]

\* A FIFO list of at most Capacity elements put through one call: the list
\* after the call, the call's result and, for a dequeue, the value it yields.
ListCall(list, call, x) ==
    IF call = "enq"
    THEN IF Len(list) < Capacity
         THEN [list |-> Append(list, x), ret |-> TRUE, out |-> NoVal]
         ELSE [list |-> list, ret |-> FALSE, out |-> NoVal]
    ELSE IF call = "deq"
    THEN IF Len(list) > 0
         THEN [list |-> Tail(list), ret |-> TRUE, out |-> Head(list)]
         ELSE [list |-> list, ret |-> FALSE, out |-> NoVal]
    ELSE [list |-> list, ret |-> Len(list) = 0, out |-> NoVal]

Observe(t) ==
    /\ Capacity' = Capacity
    /\ scenario' = scenario
    /\ nEnq' = IF Begins(t) /\ op'[t] = "enq" THEN nEnq + 1 ELSE nEnq
    /\ nDeq' = IF Begins(t) /\ op'[t] = "deq" THEN nDeq + 1 ELSE nDeq
    /\ enqLog' = IF pc[t] = "e_data" THEN Append(enqLog, item[t]) ELSE enqLog
    /\ deqLog' = IF pc[t] = "d_pub" /\ Returns(t) THEN Append(deqLog, item[t]) ELSE deqLog
    /\ hist' = IF scenario = "seq" /\ Returns(t)
               THEN Append(hist, IF op[t] = "size" THEN <<"size", size'[t]>>
                                 ELSE <<op[t], ret'[t]>>)
               ELSE hist
    /\ startPub' = [startPub EXCEPT ![t] =
                      IF Begins(t) /\ op'[t] = "deq" THEN NewestUnclaimed
                      ELSE IF Returns(t) THEN -1 ELSE @]
    /\ sawFull' = [u \in Threads |->
                      IF pc'[u] = "idle" \/ op'[u] # "enq" THEN FALSE
                      ELSE \/ (u # t \/ ~Begins(t)) /\ sawFull[u]
                           \/ Held >= Capacity
                           \/ head' - Len(deqLog') >= Capacity]
    /\ touched' = [touched EXCEPT ![t] =
                      IF Returns(t) THEN FALSE
                      ELSE \/ ~Begins(t) /\ (touched[t] \/ item'[t] # item[t])
                           \/ head' # head \/ tail' # tail \/ buffer' # buffer]
    /\ rounds' = [rounds EXCEPT ![t] =
                      IF Begins(t) \/ Returns(t) THEN 0
                      ELSE IF SentBack(t) THEN @ + 1 ELSE @]
    /\ nObs' = IF Begins(t) /\ op'[t] = "size" THEN nObs + 1 ELSE nObs
    /\ nEnqOk' = IF pc[t] = "e_pub" /\ Returns(t) THEN nEnqOk + 1 ELSE nEnqOk
    /\ quiet' = [u \in Threads |->
                    IF u = t
                    THEN IF Begins(t)
                         THEN /\ op'[t] = "size"
                              /\ \A w \in Threads : ~InTry(w)
                              /\ known[t] = <<head, tail>>
                         ELSE quiet[u]
                    ELSE IF pc[u] = "s_tail"
                         THEN quiet[u] /\ op'[t] = "size"
                         ELSE quiet[u]]
    /\ noEnq' = [u \in Threads |->
                    IF u = t
                    THEN IF Begins(t)
                         THEN /\ op'[t] = "size"
                              /\ \A w \in Threads : ~(InTry(w) /\ op[w] = "enq")
                         ELSE noEnq[u]
                    ELSE IF pc[u] = "s_tail"
                         THEN noEnq[u] /\ op'[t] # "enq"
                         ELSE noEnq[u]]
    /\ trip' = IF Begins(t) /\ op'[t] = "enq" /\ EmptyAndIdle
               THEN [by |-> t, phase |-> 1, x |-> item'[t]]
               ELSE IF trip.by # t THEN NoTrip
               ELSE IF Returns(t)
                    THEN IF trip.phase = 1 /\ ret'[t]
                         THEN [trip EXCEPT !.phase = 2] ELSE NoTrip
               ELSE IF Begins(t)
                    THEN IF trip.phase = 2 /\ op'[t] = "deq"
                         THEN [trip EXCEPT !.phase = 3] ELSE NoTrip
               ELSE trip
    /\ claimed' = IF pc[t] = "e_cas" /\ pc'[t] = "e_data"
                  THEN Append(claimed, item[t]) ELSE claimed
    /\ ref' = IF scenario = "seq" /\ Begins(t) THEN ListCall(ref.list, op'[t], item'[t]) ELSE ref
    /\ wrap' = wrap

\* ------------------------------------------------------------ enqueue_impl
\* try_enqueue(item): pos = head_.load(relaxed)
E_begin(t, v, mv) ==
    /\ Scheduled(t)
    /\ MayEnqueue(t)
    /\ EnqBudget
    /\ pc[t] = "idle"
    /\ pc' = [pc EXCEPT ![t] = "e_seq"]
    /\ op' = [op EXCEPT ![t] = "enq"]
    /\ item' = [item EXCEPT ![t] = v]
    /\ byMove' = [byMove EXCEPT ![t] = mv]
    /\ pos' = [pos EXCEPT ![t] = head]
    /\ UNCHANGED <<head, tail, buffer, ret, solo>>
    /\ Access(t)
    /\ Observe(t)

\* E_full with the argument consumed before the outcome is known: an rvalue
\* argument is moved from although the call reports failure.
E_full_moved(t) ==
    /\ pc' = [pc EXCEPT ![t] = "idle"]
    /\ ret' = [ret EXCEPT ![t] = FALSE]
    /\ pos' = [pos EXCEPT ![t] = 0]
    /\ byMove' = [byMove EXCEPT ![t] = FALSE]
    /\ item' = [item EXCEPT ![t] = IF byMove[t] THEN Moved ELSE @]
    /\ UNCHANGED <<head, tail, buffer, op, solo>>

\* diff < 0: return false
E_full(t) ==
    /\ pc' = [pc EXCEPT ![t] = "idle"]
    /\ ret' = [ret EXCEPT ![t] = FALSE]
    /\ pos' = [pos EXCEPT ![t] = 0]
    /\ byMove' = [byMove EXCEPT ![t] = FALSE]
    /\ UNCHANGED <<head, tail, buffer, item, op, solo>>

\* cell = &buffer_[pos & mask]; seq = cell->sequence.load(acquire); branch on diff
E_seq(t) ==
    /\ Scheduled(t)
    /\ pc[t] = "e_seq"
    /\ LET seq == buffer[Index(pos[t])].sequence
           diff == SignedDiff(seq, pos[t])
       IN  \/ /\ diff = 0
              /\ pc' = [pc EXCEPT ![t] = "e_cas"]
              /\ UNCHANGED <<head, tail, buffer, pos, item, byMove, op, ret, solo>>
           \/ /\ diff < 0
              /\ E_full(t)
           \/ /\ diff > 0
              /\ pc' = [pc EXCEPT ![t] = "e_head"]
              /\ UNCHANGED <<head, tail, buffer, pos, item, byMove, op, ret, solo>>
    /\ Access(t)
    /\ Observe(t)

\* E_casOk advancing the cursor by two.
E_casOk_twice(t) ==
    /\ Scheduled(t)
    /\ pc[t] = "e_cas"
    /\ head = pos[t]
    /\ head' = pos[t] + 2
    /\ pc' = [pc EXCEPT ![t] = "e_data"]
    /\ UNCHANGED <<tail, buffer, pos, item, byMove, op, ret, solo>>
    /\ Access(t)
    /\ Observe(t)

\* head_.compare_exchange_weak(pos, pos + 1, relaxed), taken
E_casOk(t) ==
    /\ Scheduled(t)
    /\ pc[t] = "e_cas"
    /\ head = pos[t]
    /\ head' = pos[t] + 1
    /\ pc' = [pc EXCEPT ![t] = "e_data"]
    /\ UNCHANGED <<tail, buffer, pos, item, byMove, op, ret, solo>>
    /\ Access(t)
    /\ Observe(t)

\* head_.compare_exchange_weak fails: pos receives the current head_ (which is
\* pos itself when a weak CAS fails spuriously); back to the top of the loop
E_casFail(t) ==
    /\ Scheduled(t)
    /\ pc[t] = "e_cas"
    /\ pos' = [pos EXCEPT ![t] = head]
    /\ pc' = [pc EXCEPT ![t] = "e_seq"]
    /\ UNCHANGED <<head, tail, buffer, item, byMove, op, ret, solo>>
    /\ Access(t)
    /\ Observe(t)

\* cell->data = static_cast<U&&>(item)
E_data(t) ==
    /\ Scheduled(t)
    /\ pc[t] = "e_data"
    /\ buffer' = [buffer EXCEPT ![Index(pos[t])].data = item[t]]
    /\ item' = [item EXCEPT ![t] = IF byMove[t] THEN Moved ELSE item[t]]
    /\ pc' = [pc EXCEPT ![t] = "e_pub"]
    /\ UNCHANGED <<head, tail, pos, byMove, op, ret, solo>>
    /\ Access(t)
    /\ Observe(t)

\* cell->sequence.store(pos + 1, release); return true
E_pub(t) ==
    /\ Scheduled(t)
    /\ pc[t] = "e_pub"
    /\ buffer' = [buffer EXCEPT ![Index(pos[t])].sequence = pos[t] + 1]
    /\ pc' = [pc EXCEPT ![t] = "idle"]
    /\ ret' = [ret EXCEPT ![t] = TRUE]
    /\ pos' = [pos EXCEPT ![t] = 0]
    /\ byMove' = [byMove EXCEPT ![t] = FALSE]
    /\ UNCHANGED <<head, tail, item, op, solo>>
    /\ Access(t)
    /\ Observe(t)

\* diff > 0: pos = head_.load(relaxed)
E_head(t) ==
    /\ Scheduled(t)
    /\ pc[t] = "e_head"
    /\ pos' = [pos EXCEPT ![t] = head]
    /\ pc' = [pc EXCEPT ![t] = "e_seq"]
    /\ UNCHANGED <<head, tail, buffer, item, byMove, op, ret, solo>>
    /\ Access(t)
    /\ Observe(t)

\* ------------------------------------------------------------- try_dequeue
\* try_dequeue(item): pos = tail_.load(relaxed)
D_begin(t) ==
    /\ Scheduled(t)
    /\ MayDequeue(t)
    /\ DeqBudget
    /\ pc[t] = "idle"
    /\ pc' = [pc EXCEPT ![t] = "d_seq"]
    /\ op' = [op EXCEPT ![t] = "deq"]
    /\ byMove' = [byMove EXCEPT ![t] = FALSE]
    /\ pos' = [pos EXCEPT ![t] = tail]
    /\ UNCHANGED <<head, tail, buffer, item, ret, solo>>
    /\ Access(t)
    /\ Observe(t)

\* D_empty with the output location reset on the empty path.
D_empty_cleared(t) ==
    /\ pc' = [pc EXCEPT ![t] = "idle"]
    /\ ret' = [ret EXCEPT ![t] = FALSE]
    /\ pos' = [pos EXCEPT ![t] = 0]
    /\ item' = [item EXCEPT ![t] = NoVal]
    /\ UNCHANGED <<head, tail, buffer, byMove, op, solo>>

\* diff < 0: return false
D_empty(t) ==
    /\ pc' = [pc EXCEPT ![t] = "idle"]
    /\ ret' = [ret EXCEPT ![t] = FALSE]
    /\ pos' = [pos EXCEPT ![t] = 0]
    /\ UNCHANGED <<head, tail, buffer, item, byMove, op, solo>>

\* cell = &buffer_[pos & mask]; seq = cell->sequence.load(acquire); branch on diff
D_seq(t) ==
    /\ Scheduled(t)
    /\ pc[t] = "d_seq"
    /\ LET seq == buffer[Index(pos[t])].sequence
           diff == SignedDiff(seq, pos[t] + 1)
       IN  \/ /\ diff = 0
              /\ pc' = [pc EXCEPT ![t] = "d_cas"]
              /\ UNCHANGED <<head, tail, buffer, pos, item, byMove, op, ret, solo>>
           \/ /\ diff < 0
              /\ D_empty(t)
           \/ /\ diff > 0
              /\ pc' = [pc EXCEPT ![t] = "d_tail"]
              /\ UNCHANGED <<head, tail, buffer, pos, item, byMove, op, ret, solo>>
    /\ Access(t)
    /\ Observe(t)

\* tail_.compare_exchange_weak(pos, pos + 1, relaxed), taken
D_casOk(t) ==
    /\ Scheduled(t)
    /\ pc[t] = "d_cas"
    /\ tail = pos[t]
    /\ tail' = pos[t] + 1
    /\ pc' = [pc EXCEPT ![t] = "d_data"]
    /\ UNCHANGED <<head, buffer, pos, item, byMove, op, ret, solo>>
    /\ Access(t)
    /\ Observe(t)

\* tail_.compare_exchange_weak fails (possibly spuriously): pos = current tail_
D_casFail(t) ==
    /\ Scheduled(t)
    /\ pc[t] = "d_cas"
    /\ pos' = [pos EXCEPT ![t] = tail]
    /\ pc' = [pc EXCEPT ![t] = "d_seq"]
    /\ UNCHANGED <<head, tail, buffer, item, byMove, op, ret, solo>>
    /\ Access(t)
    /\ Observe(t)

\* item = static_cast<T&&>(cell->data)
D_data(t) ==
    /\ Scheduled(t)
    /\ pc[t] = "d_data"
    /\ item' = [item EXCEPT ![t] = buffer[Index(pos[t])].data]
    /\ buffer' = [buffer EXCEPT ![Index(pos[t])].data = Moved]
    /\ pc' = [pc EXCEPT ![t] = "d_pub"]
    /\ UNCHANGED <<head, tail, pos, byMove, op, ret, solo>>
    /\ Access(t)
    /\ Observe(t)

\* D_pub releasing the cell for the next position instead of the next lap.
D_pub_next(t) ==
    /\ Scheduled(t)
    /\ pc[t] = "d_pub"
    /\ buffer' = [buffer EXCEPT ![Index(pos[t])].sequence = pos[t] + 1]
    /\ pc' = [pc EXCEPT ![t] = "idle"]
    /\ ret' = [ret EXCEPT ![t] = TRUE]
    /\ pos' = [pos EXCEPT ![t] = 0]
    /\ byMove' = [byMove EXCEPT ![t] = FALSE]
    /\ UNCHANGED <<head, tail, item, op, solo>>
    /\ Access(t)
    /\ Observe(t)

\* cell->sequence.store(pos + Capacity, release); return true
D_pub(t) ==
    /\ Scheduled(t)
    /\ pc[t] = "d_pub"
    /\ buffer' = [buffer EXCEPT ![Index(pos[t])].sequence = pos[t] + Capacity]
    /\ pc' = [pc EXCEPT ![t] = "idle"]
    /\ ret' = [ret EXCEPT ![t] = TRUE]
    /\ pos' = [pos EXCEPT ![t] = 0]
    /\ byMove' = [byMove EXCEPT ![t] = FALSE]
    /\ UNCHANGED <<head, tail, item, op, solo>>
    /\ Access(t)
    /\ Observe(t)

\* diff > 0: pos = tail_.load(relaxed)
D_tail(t) ==
    /\ Scheduled(t)
    /\ pc[t] = "d_tail"
    /\ pos' = [pos EXCEPT ![t] = tail]
    /\ pc' = [pc EXCEPT ![t] = "d_seq"]
    /\ UNCHANGED <<head, tail, buffer, item, byMove, op, ret, solo>>
    /\ Access(t)
    /\ Observe(t)

\* ------------------------------------------------ size_approx, empty_approx
\* SizeApprox with the operands exchanged.
SizeApprox_swapped(h, tl) == IF tl >= h THEN tl - h ELSE 0

\* head >= tail ? head - tail : 0
SizeApprox(h, tl) == IF h >= tl THEN h - tl ELSE 0

\* size_approx() == 0
EmptyApprox(n) == n = 0

\* Values a relaxed load of a cursor may return to thread t: any value the
\* cursor has taken that is not older than one t has already observed.
MayLoad(seen, cur) == seen..cur

\* The threads whose loop (or test body) calls size_approx / empty_approx.
MayObserve(t) == MayDequeue(t)

\* size_approx(): head = head_.load(relaxed); the local head is kept in pos
S_begin(t) ==
    /\ Scheduled(t)
    /\ MayObserve(t)
    /\ ObsBudget
    /\ pc[t] = "idle"
    /\ \E h \in MayLoad(known[t][1], head) :
          /\ pos' = [pos EXCEPT ![t] = h]
          /\ known' = [known EXCEPT ![t] = <<h, @[2]>>]
    /\ pc' = [pc EXCEPT ![t] = "s_tail"]
    /\ op' = [op EXCEPT ![t] = "size"]
    /\ byMove' = [byMove EXCEPT ![t] = FALSE]
    /\ UNCHANGED <<head, tail, buffer, item, ret, size, solo>>
    /\ Observe(t)

\* tail = tail_.load(relaxed); return head >= tail ? head - tail : 0;
\* empty_approx() returns size_approx() == 0
S_tail(t) ==
    /\ Scheduled(t)
    /\ pc[t] = "s_tail"
    /\ \E tl \in MayLoad(known[t][2], tail) :
          /\ size' = [size EXCEPT ![t] = SizeApprox(pos[t], tl)]
          /\ ret' = [ret EXCEPT ![t] = EmptyApprox(SizeApprox(pos[t], tl))]
          /\ known' = [known EXCEPT ![t] = <<@[1], tl>>]
    /\ pc' = [pc EXCEPT ![t] = "idle"]
    /\ pos' = [pos EXCEPT ![t] = 0]
    /\ UNCHANGED <<head, tail, buffer, item, byMove, op, solo>>
    /\ Observe(t)

\* ------------------------------------------- counters of a fixed width
\* A size_t of the given number of bits holding x; 0 bits stands for a
\* counter that never wraps.
Wrap(bits, x) == IF bits = 0 THEN x ELSE x % (2^bits)

\* static_cast<intptr_t>(x) of a stored size_t
AsSigned(bits, x) ==
    IF bits = 0 THEN x
    ELSE IF x >= 2^(bits - 1) THEN x - 2^bits ELSE x

\* static_cast<intptr_t>(a) - static_cast<intptr_t>(b).  When the difference
\* does not fit intptr_t the subtraction is undefined: the build may yield the
\* wrapped difference, or decide the comparisons on the exact difference
\* (diff < 0 compiled as a < b).  ub marks the outcomes that are not the
\* wrapped difference.
Diffs(bits, a, b) ==
    LET d == AsSigned(bits, a) - AsSigned(bits, b)
    IN  IF bits = 0 \/ (d >= -(2^(bits - 1)) /\ d < 2^(bits - 1))
        THEN {[diff |-> d, ub |-> FALSE]}
        ELSE {[diff |-> AsSigned(bits, d % (2^bits)), ub |-> FALSE],
              [diff |-> d, ub |-> TRUE]}

\* The queue after construction, as one value.
QueueStart ==
    [head |-> 0, tail |-> 0,
     buffer |-> [i \in 0..(Capacity - 1) |-> [sequence |-> i, data |-> NoVal]]]

\* enqueue_impl run to its end with no other thread active: the outcomes the
\* build allows.  diff > 0 reloads the same head_ for ever ("hang").
EnqueueImpl(bits, q, x) ==
    LET p == q.head
        i == Index(p)
    IN  {IF o.diff = 0
         THEN [q |-> [q EXCEPT !.head = Wrap(bits, p + 1),
                               !.buffer[i] = [sequence |-> Wrap(bits, p + 1), data |-> x]],
               ret |-> "true", out |-> NoVal, ub |-> o.ub]
         ELSE [q |-> q, ret |-> IF o.diff < 0 THEN "false" ELSE "hang",
               out |-> NoVal, ub |-> o.ub]
         : o \in Diffs(bits, q.buffer[i].sequence, p)}

\* try_dequeue run to its end with no other thread active.
TryDequeue(bits, q) ==
    LET p == q.tail
        i == Index(p)
    IN  {IF o.diff = 0
         THEN [q |-> [q EXCEPT !.tail = Wrap(bits, p + 1),
                               !.buffer[i] = [sequence |-> Wrap(bits, p + Capacity),
                                              data |-> Moved]],
               ret |-> "true", out |-> q.buffer[i].data, ub |-> o.ub]
         ELSE [q |-> q, ret |-> IF o.diff < 0 THEN "false" ELSE "hang",
               out |-> NoVal, ub |-> o.ub]
         : o \in Diffs(bits, q.buffer[i].sequence, Wrap(bits, p + 1))}

\* What a call handed back: its result and output, or the size.
Result(o) == [ret |-> o.ret, out |-> o.out]
SizeResult(q) == [ret |-> "size", out |-> SizeApprox(q.head, q.tail)]

\* Counter widths with 2^bits a multiple of Capacity and at least 4 * Capacity.
Widths == {b \in 1..MaxBits : 2^b >= 4 * Capacity}

WrapInit ==
    /\ ThreadsInit
    /\ scenario = "seq"
    /\ \E b \in Widths :
          wrap = [bits |-> b, n |-> 0, w |-> QueueStart, u |-> QueueStart,
                  wres |-> [ret |-> "none", out |-> NoVal],
                  ures |-> [ret |-> "none", out |-> NoVal], ub |-> FALSE]

\* The single thread may make another call on both queues.
WrapBudget ==
    /\ wrap.n < MaxWrapCalls
    /\ wrap.wres.ret # "hang"
    /\ wrap.ures.ret # "hang"

\* try_enqueue(v) on both queues
W_enqueue(v) ==
    /\ WrapBudget
    /\ \E ow \in EnqueueImpl(wrap.bits, wrap.w, v), ou \in EnqueueImpl(0, wrap.u, v) :
          wrap' = [wrap EXCEPT !.n = @ + 1, !.w = ow.q, !.u = ou.q,
                               !.wres = Result(ow), !.ures = Result(ou),
                               !.ub = @ \/ ow.ub]
    /\ UNCHANGED <<prog, ghost>>

\* try_dequeue(item) on both queues
W_dequeue ==
    /\ WrapBudget
    /\ \E ow \in TryDequeue(wrap.bits, wrap.w), ou \in TryDequeue(0, wrap.u) :
          wrap' = [wrap EXCEPT !.n = @ + 1, !.w = ow.q, !.u = ou.q,
                               !.wres = Result(ow), !.ures = Result(ou),
                               !.ub = @ \/ ow.ub]
    /\ UNCHANGED <<prog, ghost>>

\* size_approx() on both queues
W_size ==
    /\ WrapBudget
    /\ wrap' = [wrap EXCEPT !.n = @ + 1,
                            !.wres = SizeResult(wrap.w), !.ures = SizeResult(wrap.u)]
    /\ UNCHANGED <<prog, ghost>>

NextWrap ==
    \/ \E v \in Values : W_enqueue(v)
    \/ W_dequeue
    \/ W_size

WrapSpec == WrapInit /\ [][NextWrap]_vars

\* ------------------------------------------------------------ the system
\* A step of a call already begun.
Continue(t) ==
    \/ E_seq(t) \/ E_casOk(t) \/ E_casFail(t) \/ E_data(t) \/ E_pub(t) \/ E_head(t)
    \/ D_seq(t) \/ D_casOk(t) \/ D_casFail(t) \/ D_data(t) \/ D_pub(t) \/ D_tail(t)

Next ==
    \E t \in Threads :
        \/ \E v \in Values, mv \in BOOLEAN : E_begin(t, v, mv)
        \/ D_begin(t)
        \/ Continue(t)

Spec == Init /\ [][Next]_vars

\* The drivers that also call size_approx / empty_approx.
Observes(t) == S_begin(t) \/ S_tail(t)

NextObs ==
    \/ Next
    \/ \E t \in Threads : Observes(t)

ObsSpec == Init /\ [][NextObs]_vars

\* The scheduler stops every thread but t, which is inside a call.
RunAlone(t) ==
    /\ solo = 0
    /\ Busy(t)
    /\ solo' = t
    /\ UNCHANGED <<Capacity, scenario, head, tail, buffer, pc, op, pos, item, byMove, ret>>
    /\ UNCHANGED <<size, known, wrap>>
    /\ UNCHANGED ghost

NextSolo ==
    \/ Next
    \/ \E t \in Threads : RunAlone(t)

\* A thread that may run executes its next instruction, and a weak CAS on a
\* cursor that still holds the expected value does not fail forever.
Fairness ==
    \A t \in Threads :
        /\ WF_vars(Continue(t))
        /\ SF_vars(E_casOk(t))
        /\ SF_vars(D_casOk(t))

SoloSpec == Init /\ [][NextSolo]_vars /\ Fairness

\* ------------------------------------------------------------ vocabulary
Quiescent == \A t \in Threads : ~Busy(t)

Range(s) == {s[i] : i \in DOMAIN s}
BagOfSeq(s) == [v \in Range(s) |-> Cardinality({i \in DOMAIN s : s[i] = v})]
IsPrefix(s, r) == Len(s) <= Len(r) /\ \A i \in 1..Len(s) : s[i] = r[i]

\* Payloads stored at the positions claimed by enqueues and by no dequeue.
Stored == [i \in 1..(head - tail) |-> buffer[Index(tail + i - 1)].data]

EnqFails(t) == pc[t] = "e_seq" /\ pc'[t] = "idle"
DeqFails(t) == pc[t] = "d_seq" /\ pc'[t] = "idle"

\* ------------------------------------------------------------------ C1
\* C1: no loss, no duplication.  Every value a try_dequeue returned was given
\* to a successful try_enqueue, no more often than it was given; and when no
\* call is in progress, the values given to successful enqueues are exactly
\* those returned by dequeues together with those still stored in the queue.
C1_NoLossNoDuplication ==
    /\ BagOfSeq(deqLog) \sqsubseteq BagOfSeq(enqLog)
    /\ Quiescent => BagOfSeq(enqLog) = BagOfSeq(deqLog) (+) BagOfSeq(Stored)

\* The same for the capacities of two and more.
NoLossNoDuplication_Cap2 == Capacity >= 2 => C1_NoLossNoDuplication

\* ------------------------------------------------------------------ C2
\* C2: FIFO.  With one producer thread and one consumer thread (or one thread
\* doing both), the values returned by successful dequeues are, in order, the
\* first values given to successful enqueues.
C2_Fifo ==
    scenario \in {"seq", "spsc"} => IsPrefix(deqLog, enqLog)

Fifo_Cap2 == Capacity >= 2 => C2_Fifo

\* ------------------------------------------------------------------ C3
\* C3: capacity bound.  In a sequential run from the empty queue, of the calls
\* made while only try_enqueue has been called the first Capacity return true
\* and the next returns false; when a try_dequeue follows those Capacity + 1
\* calls it returns true, and so does a try_enqueue following it.
OnlyEnqueues(n) == \A j \in 1..n : hist[j][1] = "enq"

C3_CapacityBound ==
    scenario = "seq" =>
        /\ \A i \in 1..Len(hist) :
              (i <= Capacity + 1 /\ OnlyEnqueues(i)) => (hist[i][2] = (i <= Capacity))
        /\ (/\ Len(hist) >= Capacity + 2
            /\ OnlyEnqueues(Capacity + 1)
            /\ hist[Capacity + 2][1] = "deq") => hist[Capacity + 2][2]
        /\ (/\ Len(hist) >= Capacity + 3
            /\ OnlyEnqueues(Capacity + 1)
            /\ hist[Capacity + 2][1] = "deq"
            /\ hist[Capacity + 3][1] = "enq") => hist[Capacity + 3][2]

CapacityBound_Cap2 == Capacity >= 2 => C3_CapacityBound

\* ------------------------------------------------------------------ C4
\* C4: try_dequeue returns false only if the queue is empty.  A try_dequeue
\* does not return false while a value whose try_enqueue had returned true
\* before the try_dequeue began is still unclaimed by every dequeue.
C4_DequeueFalseOnlyIfEmpty ==
    [][\A t \in Threads : DeqFails(t) => startPub[t] < tail]_vars

\* ------------------------------------------------------------------ C5
\* C5: try_enqueue returns false only if the queue is full.  A try_enqueue
\* returns false only if, at some instant of the call, the values claimed by
\* enqueues and not yet handed out by a try_dequeue that has returned were
\* Capacity (or more).  (Stated for the capacities of two and more.)
C5_EnqueueFalseOnlyIfFull ==
    [][Capacity >= 2 => \A t \in Threads : EnqFails(t) => sawFull[t]]_vars

\* ------------------------------------------------------------------ C6
\* C6: a try_enqueue that returns false has had no effect.  None of its steps
\* changed head, tail, a cell's sequence or payload, or the caller's value.
C6_FailedEnqueueNoEffect ==
    [][\A t \in Threads :
          EnqFails(t) => /\ ~touched[t]
                         /\ head' = head /\ tail' = tail /\ buffer' = buffer
                         /\ item'[t] = item[t]]_vars

\* A try_enqueue has returned false and the caller still holds its value.
C6_Witness ==
    \E t \in Threads :
        /\ pc[t] = "idle" /\ op[t] = "enq" /\ ret[t] = FALSE
        /\ item[t] \in Values
        /\ Capacity >= 2 /\ head - tail = Capacity

\* ------------------------------------------------------------------ C7
\* C7: a try_dequeue that returns false only reports emptiness.  None of its
\* steps changed the caller's output location, head, tail, or a cell's
\* sequence or payload.
C7_FailedDequeueNoEffect ==
    [][\A t \in Threads :
          DeqFails(t) => /\ ~touched[t]
                         /\ head' = head /\ tail' = tail /\ buffer' = buffer
                         /\ item'[t] = item[t]]_vars

\* A try_dequeue has returned false on the drained queue and the output
\* location still holds the value it held before.
C7_Witness ==
    \E t \in Threads :
        /\ pc[t] = "idle" /\ op[t] = "deq" /\ ret[t] = FALSE
        /\ item[t] \in Values
        /\ head = tail /\ Len(deqLog) > 0

\* ------------------------------------------------------------------ C8
\* C8: lock-free progress.  A thread that reloads the cursor and goes around
\* its retry loop again does so only if another thread's CAS has moved the
\* cursor since the thread last read it.  (Going around after a failed weak
\* CAS is left out here: a weak CAS may fail on an unchanged cursor.)
C8_RetryOnlyAfterProgress ==
    [][\A t \in Threads :
          (pc[t] \in {"e_head", "d_tail"} /\ pc'[t] \in {"e_seq", "d_seq"})
              => Cursor(t) # pos[t]]_vars

RetryOnlyAfterProgress_Cap2 ==
    [][Capacity >= 2 => \A t \in Threads :
          (pc[t] \in {"e_head", "d_tail"} /\ pc'[t] \in {"e_seq", "d_seq"})
              => Cursor(t) # pos[t]]_vars

\* ------------------------------------------------------------------ C9
\* C9: non-blocking return.  A call that runs while no other thread takes a
\* step returns.
C9_SoloCallReturns ==
    \A t \in Threads : (solo = t /\ Busy(t)) ~> ~Busy(t)

SoloCallReturns_Cap2 ==
    \A t \in Threads : (Capacity >= 2 /\ solo = t /\ Busy(t)) ~> ~Busy(t)

\* ------------------------------------------------------------------ C10
\* C10: wait-freedom.  However many steps the other threads take, they send a
\* call back to the top of its retry loop at most RetryBound times.  (Stated
\* for the capacities of two and more.)
C10_WaitFree ==
    Capacity >= 2 => \A t \in Threads : rounds[t] <= RetryBound

\* ------------------------------------------------------------------ C11
\* Calls among the first n of the sequential driver that returned true.
CountOk(kind, n) ==
    Cardinality({j \in 1..n : hist[j][1] = kind /\ hist[j][2]})

\* Values enqueued and not dequeued after the first n calls.
HeldAfter(n) == CountOk("enq", n) - CountOk("deq", n)

\* C11: empty/full determinism.  In a sequential run, a try_dequeue made while
\* every enqueued value has been dequeued (in particular on the new queue)
\* returns false; size_approx() is 0 and empty_approx() true while nothing
\* has been enqueued; and a try_enqueue made while Capacity values are held
\* returns false.
C11_EmptyFullDeterminism ==
    scenario = "seq" =>
        \A i \in 1..Len(hist) :
            /\ (hist[i][1] = "deq" /\ HeldAfter(i - 1) = 0) => (hist[i][2] = FALSE)
            /\ (hist[i][1] = "size" /\ CountOk("enq", i - 1) = 0) => (hist[i][2] = 0)
            /\ (hist[i][1] = "enq" /\ HeldAfter(i - 1) >= Capacity) => (hist[i][2] = FALSE)

EmptyFullDeterminism_Cap2 == Capacity >= 2 => C11_EmptyFullDeterminism

\* ------------------------------------------------------------------ C12
\* The sequential driver has made cycles of k enqueues then k dequeues.
IsCycles(k) ==
    \A j \in 1..Len(hist) :
        hist[j][1] = IF ((j - 1) % (2 * k)) < k THEN "enq" ELSE "deq"

\* C12: wraparound.  In a sequential run made of cycles of k try_enqueue then
\* k try_dequeue calls, 1 <= k <= Capacity, every call returns true and the
\* values come out unchanged and in the order they went in, whatever the
\* cursors have reached.
C12_Wraparound ==
    scenario = "seq" =>
        \A k \in 1..Capacity :
            IsCycles(k) =>
                /\ \A j \in 1..Len(hist) : hist[j][2] = TRUE
                /\ IsPrefix(deqLog, enqLog)
                /\ \A v \in Range(deqLog) : v \in Values

\* Three fill-and-drain steps of a two-cell queue: the second fill has used
\* positions 2 and 3, which wrap onto cells 0 and 1.
C12_Witness ==
    /\ scenario = "seq" /\ Capacity = 2
    /\ Len(hist) = 6 /\ IsCycles(2)
    /\ head = 4 /\ tail = 2
    /\ deqLog = <<enqLog[1], enqLog[2]>>

\* ------------------------------------------------------------------ C13
\* C13: round trip.  When try_enqueue(x) is called on a queue that is empty
\* with no call in progress, and no other thread takes a step, the call
\* returns true; the try_dequeue the same thread makes next returns true with
\* x in the output location and leaves the queue empty.  By copy or by move.
C13_RoundTrip ==
    [][\A t \in Threads :
          (trip.by = t /\ Returns(t)) =>
              /\ ret'[t]
              /\ trip.phase = 3 => (item'[t] = trip.x /\ head' = tail')]_vars

RoundTrip_Cap2 ==
    [][Capacity >= 2 => \A t \in Threads :
          (trip.by = t /\ Returns(t)) =>
              /\ ret'[t]
              /\ trip.phase = 3 => (item'[t] = trip.x /\ head' = tail')]_vars

C15_EmptyMeansDrained ==
    [][Capacity >= 2 => \A t \in Threads :
          (pc[t] = "s_tail" /\ pc'[t] = "idle" /\ noEnq[t] /\ ret'[t])
              => tail >= head]_vars

\* The same for the calls whose load of head_ returned its newest value.
EmptyMeansDrained_Fresh ==
    [][\A t \in Threads :
          (pc[t] = "s_tail" /\ pc'[t] = "idle" /\ noEnq[t] /\ ret'[t] /\ pos[t] = head)
              => tail >= head]_vars

\* ------------------------------------------------------------------ C16
\* Threads between their successful cursor CAS and their release store on cell i.
Owners(i) ==
    {t \in Threads : pc[t] \in {"e_data", "e_pub", "d_data", "d_pub"} /\ Index(pos[t]) = i}

\* C16: exclusive slot ownership.  For each cell, at most one thread is
\* between its successful cursor CAS and its release store of that cell's
\* sequence.
C16_ExclusiveOwnership ==
    \A i \in 0..(Capacity - 1) : Cardinality(Owners(i)) <= 1

ExclusiveOwnership_Cap2 == Capacity >= 2 => C16_ExclusiveOwnership

\* ------------------------------------------------------------------ C17
\* The consumer of position q has not done its release store.
Unreleased(q) ==
    \/ q >= tail
    \/ \E u \in Threads : pc[u] \in {"d_data", "d_pub"} /\ pos[u] = q

\* The position cell i is serving: the oldest position of that cell whose
\* consumer has not released it.
SlotPosition(i) ==
    CHOOSE q \in 0..(tail + Capacity) :
        /\ Index(q) = i
        /\ Unreleased(q)
        /\ \A r \in 0..(q - 1) : Index(r) = i => ~Unreleased(r)

\* C17: slot sequence invariant.  Cell i's sequence is p + 1 when the write
\* for the position p it is serving is complete, and p when it is not (the
\* cell is available to the producer of p).
C17_SlotSequence ==
    \A i \in 0..(Capacity - 1) :
        buffer[i].sequence =
            IF Published(SlotPosition(i)) THEN SlotPosition(i) + 1 ELSE SlotPosition(i)

SlotSequence_Cap2 == Capacity >= 2 => C17_SlotSequence

\* ------------------------------------------------------------------ C18
\* The consumer of position q has done its release store.
Released(q) == ~Unreleased(q)

\* C18: per-slot ordering.  A cell's sequence never decreases and is stored
\* only by a thread that won the CAS for a position of that cell, after its
\* payload access; the tail CAS for position p comes after the producer's
\* release store for p, and the head CAS for position p + Capacity after the
\* consumer's release store for p.
C18_SlotOrdering ==
    [][/\ \A i \in 0..(Capacity - 1) :
            /\ buffer'[i].sequence >= buffer[i].sequence
            /\ buffer'[i].sequence # buffer[i].sequence =>
                  \E t \in Threads : /\ pc[t] \in {"e_pub", "d_pub"}
                                     /\ pc'[t] = "idle"
                                     /\ Index(pos[t]) = i
            /\ buffer'[i].data # buffer[i].data =>
                  \E t \in Threads : /\ pc[t] \in {"e_data", "d_data"}
                                     /\ pc'[t] \in {"e_pub", "d_pub"}
                                     /\ Index(pos[t]) = i
       /\ \A t \in Threads :
            /\ (pc[t] = "d_cas" /\ pc'[t] = "d_data") => Published(pos[t])
            /\ (pc[t] = "e_cas" /\ pc'[t] = "e_data" /\ pos[t] >= Capacity)
                  => Released(pos[t] - Capacity)]_vars

SlotOrdering_Cap2 ==
    [][Capacity >= 2 =>
       /\ \A i \in 0..(Capacity - 1) :
            /\ buffer'[i].sequence >= buffer[i].sequence
            /\ buffer'[i].sequence # buffer[i].sequence =>
                  \E t \in Threads : /\ pc[t] \in {"e_pub", "d_pub"}
                                     /\ pc'[t] = "idle"
                                     /\ Index(pos[t]) = i
            /\ buffer'[i].data # buffer[i].data =>
                  \E t \in Threads : /\ pc[t] \in {"e_data", "d_data"}
                                     /\ pc'[t] \in {"e_pub", "d_pub"}
                                     /\ Index(pos[t]) = i
       /\ \A t \in Threads :
            /\ (pc[t] = "d_cas" /\ pc'[t] = "d_data") => Published(pos[t])
            /\ (pc[t] = "e_cas" /\ pc'[t] = "e_data" /\ pos[t] >= Capacity)
                  => Released(pos[t] - Capacity)]_vars

\* ------------------------------------------------------------------ C19
\* Calls that have won their CAS and not yet returned.
Claiming(kinds) == Cardinality({t \in Threads : pc[t] \in kinds})

\* C19: cursor discipline.  head and tail never decrease; each changes only
\* by the successful CAS of a call, by exactly 1, and that call returns true;
\* so head is the number of try_enqueue calls that returned true plus those
\* past their CAS, tail likewise for try_dequeue, and in a quiescent state
\* head and tail are the numbers of successful enqueues and dequeues.
C19_CursorDiscipline ==
    /\ [](/\ head = nEnqOk + Claiming({"e_data", "e_pub"})
          /\ tail = Len(deqLog) + Claiming({"d_data", "d_pub"})
          /\ Quiescent => (head = nEnqOk /\ tail = Len(deqLog)))
    /\ [][/\ head' \in {head, head + 1}
          /\ tail' \in {tail, tail + 1}
          /\ head' # head => \E t \in Threads : pc[t] = "e_cas" /\ pc'[t] = "e_data"
          /\ tail' # tail => \E t \in Threads : pc[t] = "d_cas" /\ pc'[t] = "d_data"
          /\ \A t \in Threads :
                (Returns(t) /\ op[t] \in {"enq", "deq"}) =>
                    (ret'[t] <=> pc[t] \in {"e_pub", "d_pub"})]_vars

\* Two enqueues and one dequeue have returned true, by more than one thread.
C19_Witness ==
    /\ scenario = "mpmc" /\ Capacity = 2 /\ Quiescent
    /\ head = 2 /\ tail = 1 /\ nEnqOk = 2 /\ Len(deqLog) = 1
    /\ \E t \in Threads : op[t] = "deq" /\ ret[t]
    /\ \E t \in Threads : op[t] = "enq" /\ ret[t]

\* ------------------------------------------------------------------ C20
\* C20: cursor bound.  In every state 0 <= head - tail <= Capacity.
C20_CursorBound ==
    /\ 0 <= head - tail
    /\ head - tail <= Capacity

CursorBound_Cap2 == Capacity >= 2 => C20_CursorBound

\* ------------------------------------------------------------------ C21
\* C21: position-order delivery.  The try_dequeue whose CAS moved tail from p
\* to p + 1 returns the value given to the try_enqueue whose CAS moved head
\* from p to p + 1.  (As tail only grows, the values of one producer, which
\* sit at increasing positions, are then claimed in the order it gave them.)
C21_PositionOrder ==
    [][\A t \in Threads :
          (pc[t] = "d_pub" /\ Returns(t)) => item'[t] = claimed[pos[t] + 1]]_vars

PositionOrder_Cap2 ==
    [][Capacity >= 2 => \A t \in Threads :
          (pc[t] = "d_pub" /\ Returns(t)) => item'[t] = claimed[pos[t] + 1]]_vars

\* ------------------------------------------------------------------ C22
\* C22: sequential reference.  In the sequential driver every call returns
\* what the bounded FIFO list returns for it: try_enqueue true exactly when
\* the list has fewer than Capacity elements, try_dequeue true with the
\* oldest element exactly when the list is not empty; and after every call
\* size_approx() is the length of the list.
C22_SequentialReference ==
    [][(scenario = "seq" /\ \E t \in Threads : Returns(t)) =>
          \A t \in Threads : Returns(t) =>
              /\ ret'[t] = ref.ret
              /\ (op[t] = "deq" /\ ref.ret) => item'[t] = ref.out
              /\ op[t] = "size" => size'[t] = Len(ref.list)
              /\ SizeApprox(head', tail') = Len(ref.list)]_vars

SequentialReference_Cap2 ==
    [][(Capacity >= 2 /\ scenario = "seq" /\ \E t \in Threads : Returns(t)) =>
          \A t \in Threads : Returns(t) =>
              /\ ret'[t] = ref.ret
              /\ (op[t] = "deq" /\ ref.ret) => item'[t] = ref.out
              /\ op[t] = "size" => size'[t] = Len(ref.list)
              /\ SizeApprox(head', tail') = Len(ref.list)]_vars

\* ------------------------------------------------------------------ C23
\* C23: range of size_approx().  Whatever the other threads do around its two
\* loads, size_approx() returns a value from 0 to Capacity, and empty_approx()
\* returns whether that value is 0.
C23_SizeRange ==
    \A t \in Threads :
        /\ 0 <= size[t]
        /\ size[t] <= Capacity
        /\ (pc[t] = "idle" /\ op[t] = "size") => (ret[t] = (size[t] = 0))

\* The same for the capacities of two and more.
SizeRange_Cap2 == Capacity >= 2 => C23_SizeRange

\* For the capacities of two and more, a size_approx() whose second load
\* returned the newest tail_ is within the range.
SizeRange_Cap2Fresh ==
    [][Capacity >= 2 => \A t \in Threads :
          (pc[t] = "s_tail" /\ pc'[t] = "idle" /\ known'[t][2] = tail)
              => (0 <= size'[t] /\ size'[t] <= Capacity)]_vars

\* ------------------------------------------------------------------ C24
\* Some call has been made on a pair of queues of two cells or more.
WrapCalled == Capacity >= 2 /\ wrap.bits > 0 /\ wrap.n > 0

\* C24: wrapping is tolerated.  With counters of w bits and diff the signed
\* w-bit difference, every non-overlapping try_enqueue, try_dequeue and
\* size_approx() hands back what it hands back with unbounded counters.
\* (Stated for the capacities of two and more.)
C24_WrapTolerated ==
    (WrapCalled /\ ~wrap.ub) => wrap.wres = wrap.ures

\* The same for try_enqueue and try_dequeue alone.
WrapTolerated_Calls ==
    (WrapCalled /\ ~wrap.ub /\ wrap.wres.ret # "size") => wrap.wres = wrap.ures

\* The same for every outcome the build allows for the signed subtraction.
WrapTolerated_AnyBuild ==
    (WrapCalled /\ wrap.wres.ret # "size") => wrap.wres = wrap.ures

====
